---- MODULE Spec2Model ----
(***************************************************************************)
(* Diamond (src/diamond.py): a file packer.  empacotar_comprimir frames    *)
(* the input files into one payload, compresses it and writes it behind a  *)
(* 4-byte magic number; descomprimir_desempacotar checks the magic number, *)
(* decompresses, walks the payload with a cursor and writes every entry    *)
(* into a destination directory.                                           *)
(*                                                                         *)
(* Text (str) is a sequence of code points, bytes are sequences of 0..255. *)
(* The file system is a set of directories and a map from the absolute     *)
(* path of every regular file (a sequence of components) to its bytes.     *)
(***************************************************************************)
EXTENDS Integers, Sequences, FiniteSets, TLC

VARIABLES
    files,                \* file system: absolute path -> bytes of the regular file
    dirs,                 \* file system: absolute paths of the directories
    pc,                   \* "idle", "pack" (inside the loop of line 33), "unpack" (line 118)
    runs,                 \* number of invocations started so far
    \* ---- empacotar_comprimir ----
    arquivos,             \* its argument
    output,               \* its argument, after line 21-22
    idx,                  \* position of the loop of line 33 in arquivos (1-based)
    dados_empacotados,    \* the payload being built
    embedded,             \* <<arquivo, conteudo>> of every file read at line 39-40, in order
    packComprimidos,      \* dados_comprimidos of line 62
    packStatus,           \* "none", "running", "ok" (line 73), "erro" (line 81)
    \* ---- descomprimir_desempacotar ----
    arquivo_dmd,          \* its argument
    pasta_destino,        \* its argument, after line 105-106
    dados_comprimidos,    \* line 99
    dados_descomprimidos, \* line 102
    zlibCalled,           \* whether zlib.decompress (line 102) was called by this invocation
    pos,                  \* the cursor
    num_arquivos,         \* line 113
    i,                    \* entries already processed by the loop of line 118
    caminho_arquivo,      \* line 136, of the last entry whose name was read
    written,              \* <<path, nome, conteudo>> of every completed write of line 137-138, in order
    unpackStatus,         \* "none", "running", "ok" (line 142), "erro" (lines 88, 97, 147)
    falha                 \* where the last unpack failed: "", "missing", "magic", "open", "zlib",
                          \* "mkdir", "count", "namelen", "decode", "contentlen", "openw", "write"

vars == <<files, dirs, pc, runs, arquivos, output, idx, dados_empacotados, embedded,
          packComprimidos, packStatus, arquivo_dmd, pasta_destino, dados_comprimidos,
          dados_descomprimidos, zlibCalled, pos, num_arquivos, i, caminho_arquivo, written,
          unpackStatus, falha>>

packVars == <<arquivos, output, idx, dados_empacotados, embedded, packComprimidos, packStatus>>

unpackVars == <<arquivo_dmd, pasta_destino, dados_comprimidos, dados_descomprimidos,
                zlibCalled, pos, num_arquivos, i, caminho_arquivo, written, unpackStatus,
                falha>>

----------------------------------------------------------------------------
(* Bounds of the model. *)

MaxRuns == 2

----------------------------------------------------------------------------
(* Sequences. *)

Range(s) == { s[k] : k \in 1..Len(s) }

Take(s, n) == SubSeq(s, 1, IF n < Len(s) THEN n ELSE Len(s))

Drop(s, n) == SubSeq(s, n + 1, Len(s))

\* Python's s[a:b] on bytes for 0 <= a <= b: silently clipped to the buffer.
Slice(s, a, b) == SubSeq(s, a + 1, IF b < Len(s) THEN b ELSE Len(s))

EndsWith(s, suf) ==
    /\ Len(suf) <= Len(s)
    /\ SubSeq(s, Len(s) - Len(suf) + 1, Len(s)) = suf

\* str.rfind(ch): the last 1-based position of ch in s, 0 when absent.
RFind(s, ch) ==
    LET hits == { k \in 1..Len(s) : s[k] = ch }
    IN  IF hits = {} THEN 0 ELSE CHOOSE k \in hits : \A j \in hits : j <= k

\* The concatenation of a sequence of sequences (halved, to keep the
\* evaluation shallow).
RECURSIVE Concat(_)
Concat(ss) ==
    IF ss = <<>> THEN <<>>
    ELSE IF Len(ss) = 1 THEN ss[1]
    ELSE LET h == Len(ss) \div 2
         IN  Concat(SubSeq(ss, 1, h)) \o Concat(SubSeq(ss, h + 1, Len(ss)))

\* The sum of f[lo], ..., f[hi].
RECURSIVE SumRange(_, _, _)
SumRange(f, lo, hi) ==
    IF lo > hi THEN 0
    ELSE IF lo = hi THEN f[lo]
    ELSE LET mid == (lo + hi) \div 2
         IN  SumRange(f, lo, mid) + SumRange(f, mid + 1, hi)

\* The members of a set of integers in increasing order.
Sorted(S) ==
    [m \in 1..Cardinality(S) |-> CHOOSE k \in S : Cardinality({ j \in S : j < k }) = m - 1]

Rep(n, x) == [k \in 1..n |-> x]

----------------------------------------------------------------------------
(* struct.pack('I', n) / struct.unpack('I', b): 4 bytes, native (little-    *)
(* endian) order.  pack raises struct.error outside 0..2^32-1, unpack       *)
(* raises unless it gets exactly 4 bytes.                                   *)

\* n < 2^32, written so that no intermediate value leaves TLC's integers.
PackIOk(n) == n >= 0 /\ (n \div 65536) < 65536

PackI(n) == << n % 256, (n \div 256) % 256, (n \div 65536) % 256, (n \div 16777216) % 256 >>

UnpackIOk(b) == Len(b) = 4

UnpackI(b) == b[1] + 256 * b[2] + 65536 * b[3] + 16777216 * b[4]

----------------------------------------------------------------------------
(* str.encode('utf-8') and bytes.decode('utf-8') (strict).                  *)

IsSurrogate(cp) == cp >= 55296 /\ cp <= 57343

EncodeCp(cp) ==
    IF cp < 128 THEN << cp >>
    ELSE IF cp < 2048 THEN << 192 + (cp \div 64), 128 + (cp % 64) >>
    ELSE IF cp < 65536
        THEN << 224 + (cp \div 4096), 128 + ((cp \div 64) % 64), 128 + (cp % 64) >>
    ELSE << 240 + (cp \div 262144), 128 + ((cp \div 4096) % 64),
            128 + ((cp \div 64) % 64), 128 + (cp % 64) >>

\* encode raises UnicodeEncodeError on a lone surrogate.
EncodeOk(s) == \A k \in 1..Len(s) : ~IsSurrogate(s[k])

EncodeUtf8(s) == Concat([k \in 1..Len(s) |-> EncodeCp(s[k])])

IsCont(b) == b >= 128 /\ b <= 191

\* Number of bytes of the well-formed UTF-8 sequence starting at b[k], 0 when
\* the bytes at k are ill-formed or cut short.
SeqLenAt(b, k) ==
    LET b0 == b[k]
        n  == Len(b)
    IN  IF b0 < 128 THEN 1
        ELSE IF b0 >= 194 /\ b0 <= 223
            THEN IF k + 1 <= n /\ IsCont(b[k + 1]) THEN 2 ELSE 0
        ELSE IF b0 >= 224 /\ b0 <= 239
            THEN IF /\ k + 2 <= n
                    /\ IsCont(b[k + 1]) /\ IsCont(b[k + 2])
                    /\ (b0 = 224 => b[k + 1] >= 160)
                    /\ (b0 = 237 => b[k + 1] <= 159)
                 THEN 3 ELSE 0
        ELSE IF b0 >= 240 /\ b0 <= 244
            THEN IF /\ k + 3 <= n
                    /\ IsCont(b[k + 1]) /\ IsCont(b[k + 2]) /\ IsCont(b[k + 3])
                    /\ (b0 = 240 => b[k + 1] >= 144)
                    /\ (b0 = 244 => b[k + 1] <= 143)
                 THEN 4 ELSE 0
        ELSE 0

CpAt(b, k, n) ==
    IF n = 1 THEN b[k]
    ELSE IF n = 2 THEN (b[k] - 192) * 64 + (b[k + 1] - 128)
    ELSE IF n = 3 THEN (b[k] - 224) * 4096 + (b[k + 1] - 128) * 64 + (b[k + 2] - 128)
    ELSE (b[k] - 240) * 262144 + (b[k + 1] - 128) * 4096
         + (b[k + 2] - 128) * 64 + (b[k + 3] - 128)

\* The decoder reads one well-formed sequence after the other from the first
\* byte on, so the sequences start exactly at the bytes that are no
\* continuation bytes; it raises when one of them starts no well-formed
\* sequence or a continuation byte belongs to none.
Leads(b) == { k \in 1..Len(b) : ~IsCont(b[k]) }

WellFormed(b) ==
    /\ \A k \in Leads(b) : SeqLenAt(b, k) > 0
    /\ \A k \in (1..Len(b)) \ Leads(b) :
          \E j \in Leads(b) : j < k /\ k < j + SeqLenAt(b, j)

\* [ok, s]: ok is FALSE when decode raises UnicodeDecodeError.
DecodeUtf8(b) ==
    IF ~WellFormed(b) THEN [ok |-> FALSE, s |-> <<>>]
    ELSE LET at == Sorted(Leads(b))
         IN  [ok |-> TRUE,
              s  |-> [m \in 1..Len(at) |-> CpAt(b, at[m], SeqLenAt(b, at[m]))]]

----------------------------------------------------------------------------
(* zlib.compress / zlib.decompress.  The compressed stream is modelled as   *)
(* the zlib container around one stored deflate block: the 2-byte header,   *)
(* the block header with LEN and its complement, the data, and the Adler-32 *)
(* of the data.  decompress raises zlib.error on anything else.             *)

\* Adler-32 as its two 16-bit halves <<b, a>>: a is 1 plus the sum of the
\* bytes, b the sum of the values a takes after each byte, both mod 65521.
Adler32(d) ==
    LET n == Len(d)
    IN  << (n + SumRange([k \in 1..n |-> (n - k + 1) * d[k]], 1, n)) % 65521,
           (1 + SumRange(d, 1, n)) % 65521 >>

BE16(n) == << (n \div 256) % 256, n % 256 >>

\* The checksum in big-endian byte order, as the stream's trailer.
AdlerBytes(d) == BE16(Adler32(d)[1]) \o BE16(Adler32(d)[2])

LE16(n) == << n % 256, (n \div 256) % 256 >>

ZlibHeader == << 120, 218 >>

ZlibCompress(d) ==
    ZlibHeader \o << 1 >> \o LE16(Len(d)) \o LE16(65535 - Len(d)) \o d \o AdlerBytes(d)

ZlibDecompressOk(z) ==
    /\ Len(z) >= 11
    /\ SubSeq(z, 1, 2) = ZlibHeader
    /\ z[3] = 1
    /\ LET n == z[4] + 256 * z[5]
       IN  /\ LE16(65535 - n) = << z[6], z[7] >>
           /\ Len(z) = 11 + n
           /\ SubSeq(z, 8 + n, 11 + n) = AdlerBytes(SubSeq(z, 8, 7 + n))

ZlibDecompress(z) == SubSeq(z, 8, Len(z) - 4)

----------------------------------------------------------------------------
(* os.path on POSIX.  47 is '/', 46 is '.'.                                 *)

\* os.path.basename(p): what follows the last '/'.
Basename(p) == Drop(p, RFind(p, 47))

\* os.path.splitext(p)[0]: p without its extension; the dots that lead the
\* last component do not start an extension.
SplitextRoot(p) ==
    LET sepIndex == RFind(p, 47)
        dotIndex == RFind(p, 46)
    IN  IF /\ dotIndex > sepIndex
           /\ \E k \in (sepIndex + 1)..(dotIndex - 1) : p[k] # 46
        THEN Take(p, dotIndex - 1)
        ELSE p

\* os.path.join(a, b): an absolute b discards a.
Join(a, b) ==
    IF b # <<>> /\ b[1] = 47 THEN b
    ELSE IF a = <<>> \/ a[Len(a)] = 47 THEN a \o b
    ELSE a \o << 47 >> \o b

\* p.split('/'): the components of p between its separators.
SplitPath(p) ==
    LET seps == Sorted({ k \in 1..Len(p) : p[k] = 47 })
        n    == Len(seps)
    IN  [m \in 1..(n + 1) |->
            SubSeq(p, IF m = 1 THEN 1 ELSE seps[m - 1] + 1,
                      IF m = n + 1 THEN Len(p) ELSE seps[m] - 1)]

----------------------------------------------------------------------------
(* The file system, as the kernel resolves a path: component by component   *)
(* from the root or the working directory, every component but the last an  *)
(* existing directory.                                                      *)

Root == <<>>

\* The working directory, "/w".
Cwd == << << 119 >> >>

Parent(path) == IF path = <<>> THEN <<>> ELSE SubSeq(path, 1, Len(path) - 1)

NoPath == [ok |-> FALSE, path |-> <<>>]

RECURSIVE Walk(_, _, _)
Walk(comps, cur, ds) ==
    IF comps = <<>> THEN [ok |-> TRUE, path |-> cur]
    ELSE LET c    == Head(comps)
             rest == Tail(comps)
         IN  IF c = <<>> \/ c = << 46 >> THEN Walk(rest, cur, ds)
             ELSE IF c = << 46, 46 >> THEN Walk(rest, Parent(cur), ds)
             ELSE IF rest = <<>> THEN [ok |-> TRUE, path |-> Append(cur, c)]
             ELSE IF Append(cur, c) \in ds THEN Walk(rest, Append(cur, c), ds)
             ELSE NoPath

\* The absolute path p names, when every directory on the way exists.  An
\* empty path and a path with a NUL name nothing.
Resolve(p, ds) ==
    IF p = <<>> \/ 0 \in Range(p) THEN NoPath
    ELSE Walk(SplitPath(p), IF p[1] = 47 THEN Root ELSE Cwd, ds)

\* os.path.exists(p)
Exists(p) ==
    LET r == Resolve(p, dirs)
    IN  r.ok /\ (r.path \in dirs \/ r.path \in DOMAIN files)

\* open(p, 'rb') succeeds on a regular file only.
OpenReadOk(p) ==
    LET r == Resolve(p, dirs)
    IN  r.ok /\ r.path \in DOMAIN files

ReadFile(p) == files[Resolve(p, dirs).path]

\* open(p, 'wb') creates or truncates a regular file; it raises on a
\* directory and when the directory that is to hold the file does not exist.
OpenWriteOk(p, ds) ==
    LET r == Resolve(p, ds)
    IN  r.ok /\ r.path \notin ds

WriteFile(fs, path, data) ==
    [q \in DOMAIN fs \cup {path} |-> IF q = path THEN data ELSE fs[q]]

\* os.makedirs(p): the directories there are afterwards; ok is FALSE when a
\* regular file stands in the way, and the directories made before it stay.
RECURSIVE MkWalk(_, _, _)
MkWalk(comps, cur, ds) ==
    IF comps = <<>> THEN [ok |-> TRUE, dirs |-> ds]
    ELSE LET c    == Head(comps)
             rest == Tail(comps)
         IN  IF c = <<>> \/ c = << 46 >> THEN MkWalk(rest, cur, ds)
             ELSE IF c = << 46, 46 >> THEN MkWalk(rest, Parent(cur), ds)
             ELSE IF Append(cur, c) \in DOMAIN files THEN [ok |-> FALSE, dirs |-> ds]  \* mkdir raises
             ELSE MkWalk(rest, Append(cur, c), ds \cup {Append(cur, c)})

MakeDirs(p) ==
    IF p = <<>> \/ 0 \in Range(p) THEN [ok |-> FALSE, dirs |-> dirs]
    ELSE MkWalk(SplitPath(p), IF p[1] = 47 THEN Root ELSE Cwd, dirs)

----------------------------------------------------------------------------
(* The container format.                                                    *)

\* Diamond.MAGIC_NUMBER, b'DMD\x01'
MAGIC_NUMBER == << 68, 77, 68, 1 >>

\* '.dmd'
DmdExt == << 46, 100, 109, 100 >>

\* '_extraido'
Extraido == << 95, 101, 120, 116, 114, 97, 105, 100, 111 >>

\* pasta_destino=None
None == << -1 >>

\* The stored name of a file: its base name in UTF-8, cut to 255 bytes.
NomeBytes(arquivo) ==
    LET nome_bytes == EncodeUtf8(Basename(arquivo))
    IN  IF Len(nome_bytes) > 255 THEN SubSeq(nome_bytes, 1, 255) ELSE nome_bytes

\* A variant of EntryBytes that packs the content length with format 'H'
\* (2 bytes) instead of 'I'.
EntryBytesShortLength(nome_bytes, conteudo) ==
    << Len(nome_bytes) >> \o nome_bytes \o LE16(Len(conteudo)) \o conteudo

\* One entry: name length (1 byte), name, content length (4 bytes), content.
EntryBytes(nome_bytes, conteudo) ==
    << Len(nome_bytes) >> \o nome_bytes \o PackI(Len(conteudo)) \o conteudo

\* The header of the payload: the number of files.
HeaderBytes(arqs) == PackI(Len(arqs))

\* A variant of MagicOk that compares the three letters only.
MagicOkLetters(magic) == Slice(magic, 0, 3) = Slice(MAGIC_NUMBER, 0, 3)

\* Line 95: the 4 bytes read are the magic number.
MagicOk(magic) == magic = MAGIC_NUMBER

\* What line 66-67 writes.
ArchiveBytes(comprimidos) == MAGIC_NUMBER \o comprimidos

\* The entry the loop of line 118 reads at cursor p of buffer d.  falha names
\* the statement that raises ("" when none does): d[p] past the end raises
\* IndexError, decode raises UnicodeDecodeError, struct.unpack raises on a
\* slice that is not 4 bytes; a slice itself never raises.
ReadEntry(d, p) ==
    IF p >= Len(d)
    THEN [falha |-> "namelen", nome |-> <<>>, nome_bytes |-> <<>>,
          tamanho_conteudo |-> 0, conteudo |-> <<>>, pos |-> p]
    ELSE
    LET tamanho_nome == d[p + 1]
        nome_bytes   == Slice(d, p + 1, p + 1 + tamanho_nome)
        dec          == DecodeUtf8(nome_bytes)
        p2           == p + 1 + tamanho_nome
        len_bytes    == Slice(d, p2, p2 + 4)
    IN  IF ~dec.ok
        THEN [falha |-> "decode", nome |-> <<>>, nome_bytes |-> nome_bytes,
              tamanho_conteudo |-> 0, conteudo |-> <<>>, pos |-> p + 1]
        ELSE IF ~UnpackIOk(len_bytes)
        THEN [falha |-> "contentlen", nome |-> dec.s, nome_bytes |-> nome_bytes,
              tamanho_conteudo |-> 0, conteudo |-> <<>>, pos |-> p2]
        ELSE LET tamanho_conteudo == UnpackI(len_bytes)
             IN  [falha |-> "", nome |-> dec.s, nome_bytes |-> nome_bytes,
                  tamanho_conteudo |-> tamanho_conteudo,
                  conteudo |-> Slice(d, p2 + 4, p2 + 4 + tamanho_conteudo),
                  pos |-> p2 + 4 + tamanho_conteudo]

----------------------------------------------------------------------------
(* The inputs of the model: the files on disk before the first invocation   *)
(* and the command lines tried.                                             *)

sA == << 97 >>
sB == << 98 >>
sD == << 100 >>
sDA == << 100, 47, 97 >>
sN == << 110 >>
sO == << 111 >>
sX == << 120 >>
sY == << 121 >>

\* A base name of 256 UTF-8 bytes: 254 'a' and one two-byte 'e acute'.
sLongo == Rep(254, 97) \o << 233 >>

sBad == << 98, 97, 100 >>
sCurto == << 115 >>
sP == << 112 >> \o DmdExt
sQ == << 113 >> \o DmdExt
sT == << 116 >> \o DmdExt
sZ == << 122 >> \o DmdExt

\* An entry as a foreign writer may frame it: the declared content length
\* need not be the length of the content that follows.
Frame(nome_bytes, declarado, conteudo) ==
    << Len(nome_bytes) >> \o nome_bytes \o PackI(declarado) \o conteudo

Archive(payload) == ArchiveBytes(ZlibCompress(payload))

\* p.dmd: one entry whose content stops 2 bytes short of its declared length.
PayloadP == PackI(1) \o Frame(sX, 5, << 1, 2, 3 >>)

\* q.dmd: two entries of the same name, a third, and a fourth whose name
\* points into a subdirectory that does not exist.
PayloadQ ==
    PackI(4) \o Frame(sX, 2, << 10, 11 >>) \o Frame(sX, 1, << 12 >>) \o Frame(sY, 1, << 13 >>)
             \o Frame(<< 107, 47, 120 >>, 1, << 7 >>)

\* t.dmd: a name with a parent reference and an absolute name.
PayloadT ==
    PackI(2) \o Frame(<< 46, 46, 47, 101 >>, 1, << 9 >>) \o Frame(<< 47, 114 >>, 1, << 8 >>)

InitFiles ==
    LET f == [ a     |-> << 104, 105 >>,
               b     |-> << 0, 255, 16 >>,
               da    |-> << 7 >>,
               longo |-> << 1 >>,
               bad   |-> << 68, 77, 68, 2, 120, 218 >>,
               curto |-> << 68, 77 >>,
               p     |-> Archive(PayloadP),
               q     |-> Archive(PayloadQ),
               t     |-> Archive(PayloadT),
               z     |-> ArchiveBytes(<< 120, 218, 0 >>) ]
        at == [ a     |-> Append(Cwd, sA),
                b     |-> Append(Cwd, sB),
                da    |-> Cwd \o << sD, sA >>,
                longo |-> Append(Cwd, sLongo),
                bad   |-> Append(Cwd, sBad),
                curto |-> Append(Cwd, sCurto),
                p     |-> Append(Cwd, sP),
                q     |-> Append(Cwd, sQ),
                t     |-> Append(Cwd, sT),
                z     |-> Append(Cwd, sZ) ]
    IN  [ path \in { at[k] : k \in DOMAIN at } |->
            f[CHOOSE k \in DOMAIN at : at[k] = path] ]

\* The directories: the root, the working directory, d, and p_extraido with
\* a directory b in it.
InitDirs ==
    { Root, Cwd, Append(Cwd, sD),
      Append(Cwd, << 112 >> \o Extraido), Cwd \o << << 112 >> \o Extraido, sB >> }

\* <<arquivos, output>> of the pack invocations tried.
PackArgs ==
    { << << sA, sB >>, sO >>,
      << << sA, sB >>, sP >>,
      << << sA, sN >>, sO >>,
      << << sA, sDA >>, sO >>,
      << << sLongo >>, sO >>,
      << << sA, sD >>, sP >>,
      << << sB >>, << 110, 47, 111 >> >> }

\* <<arquivo_dmd, pasta_destino>> of the unpack invocations tried.
UnpackArgs ==
    { << sO \o DmdExt, None >>,
      << sP, None >>,
      << sQ, None >>,
      << sQ, sD >>,
      << sT, None >>,
      << sZ, None >>,
      << sBad, None >>,
      << sCurto, None >>,
      << sN, None >>,
      << sD, None >>,
      << sQ, << 97, 47, 107 >> >> }

----------------------------------------------------------------------------
(* The state before the first invocation.                                   *)

Init ==
    /\ files = InitFiles
    /\ dirs = InitDirs
    /\ pc = "idle"
    /\ runs = 0
    /\ arquivos = <<>>
    /\ output = <<>>
    /\ idx = 1
    /\ dados_empacotados = <<>>
    /\ embedded = <<>>
    /\ packComprimidos = <<>>
    /\ packStatus = "none"
    /\ arquivo_dmd = <<>>
    /\ pasta_destino = None
    /\ dados_comprimidos = <<>>
    /\ dados_descomprimidos = <<>>
    /\ zlibCalled = FALSE
    /\ pos = 0
    /\ num_arquivos = 0
    /\ i = 0
    /\ caminho_arquivo = <<>>
    /\ written = <<>>
    /\ unpackStatus = "none"
    /\ falha = ""

----------------------------------------------------------------------------
(* Diamond.empacotar_comprimir(arquivos, output)                            *)

\* A variant of PackStart that opens the output and writes the magic number
\* before the files are read.
PackStartOpensOutput(arqs, out) ==
    /\ pc = "idle"
    /\ runs < MaxRuns
    /\ runs' = runs + 1
    /\ pc' = "pack"
    /\ arquivos' = arqs
    /\ output' = IF EndsWith(out, DmdExt) THEN out ELSE out \o DmdExt
    /\ dados_empacotados' = HeaderBytes(arqs)
    /\ idx' = 1
    /\ embedded' = <<>>
    /\ packComprimidos' = <<>>
    /\ packStatus' = "running"
    /\ files' = IF OpenWriteOk(output', dirs)
                THEN WriteFile(files, Resolve(output', dirs).path, MAGIC_NUMBER)
                ELSE files
    /\ UNCHANGED dirs
    /\ UNCHANGED unpackVars

\* Lines 21-31: the extension, the empty payload and its header.
PackStart(arqs, out) ==
    /\ pc = "idle"
    /\ runs < MaxRuns
    /\ runs' = runs + 1
    /\ pc' = "pack"
    /\ arquivos' = arqs
    /\ output' = IF EndsWith(out, DmdExt) THEN out ELSE out \o DmdExt
    /\ dados_empacotados' = HeaderBytes(arqs)
    /\ idx' = 1
    /\ embedded' = <<>>
    /\ packComprimidos' = <<>>
    /\ packStatus' = "running"
    /\ UNCHANGED <<files, dirs>>
    /\ UNCHANGED unpackVars

\* Lines 34-36: a path that does not exist is reported and skipped.
PackSkip ==
    /\ pc = "pack"
    /\ idx <= Len(arquivos)
    /\ ~Exists(arquivos[idx])
    /\ idx' = idx + 1
    /\ UNCHANGED <<files, dirs, pc, runs, arquivos, output, dados_empacotados, embedded,
                   packComprimidos, packStatus>>
    /\ UNCHANGED unpackVars

\* Whether lines 39-56 run without raising for this path.
PackEntryOk(arquivo) ==
    /\ OpenReadOk(arquivo)
    /\ EncodeOk(Basename(arquivo))
    /\ PackIOk(Len(ReadFile(arquivo)))

\* A variant of PackEntry that puts the new entry in front of the entries
\* already there.
PackEntryPrepend ==
    /\ pc = "pack"
    /\ idx <= Len(arquivos)
    /\ Exists(arquivos[idx])
    /\ PackEntryOk(arquivos[idx])
    /\ LET arquivo  == arquivos[idx]
           conteudo == ReadFile(arquivo)
       IN  /\ dados_empacotados' =
                  Slice(dados_empacotados, 0, 4) \o EntryBytes(NomeBytes(arquivo), conteudo)
                  \o Slice(dados_empacotados, 4, Len(dados_empacotados))
           /\ embedded' = Append(embedded, << arquivo, conteudo >>)
    /\ idx' = idx + 1
    /\ UNCHANGED <<files, dirs, pc, runs, arquivos, output, packComprimidos, packStatus>>
    /\ UNCHANGED unpackVars

\* Lines 39-58: the file is read and its entry appended.
PackEntry ==
    /\ pc = "pack"
    /\ idx <= Len(arquivos)
    /\ Exists(arquivos[idx])
    /\ PackEntryOk(arquivos[idx])
    /\ LET arquivo  == arquivos[idx]
           conteudo == ReadFile(arquivo)
       IN  /\ dados_empacotados' =
                  dados_empacotados \o EntryBytes(NomeBytes(arquivo), conteudo)
           /\ embedded' = Append(embedded, << arquivo, conteudo >>)
    /\ idx' = idx + 1
    /\ UNCHANGED <<files, dirs, pc, runs, arquivos, output, packComprimidos, packStatus>>
    /\ UNCHANGED unpackVars

\* Lines 39-56 raise (the path is a directory, the name does not encode, the
\* content is 4 GiB or more); lines 79-81 report it and exit with status 1.
PackEntryErro ==
    /\ pc = "pack"
    /\ idx <= Len(arquivos)
    /\ Exists(arquivos[idx])
    /\ ~PackEntryOk(arquivos[idx])
    /\ packStatus' = "erro"
    /\ pc' = "idle"
    /\ UNCHANGED <<files, dirs, runs, arquivos, output, idx, dados_empacotados, embedded,
                   packComprimidos>>
    /\ UNCHANGED unpackVars

\* Lines 62-77: the payload is compressed and the archive written.
PackWrite ==
    /\ pc = "pack"
    /\ idx > Len(arquivos)
    /\ OpenWriteOk(output, dirs)
    /\ packComprimidos' = ZlibCompress(dados_empacotados)
    /\ files' = WriteFile(files, Resolve(output, dirs).path,
                          ArchiveBytes(ZlibCompress(dados_empacotados)))
    /\ packStatus' = "ok"
    /\ pc' = "idle"
    /\ UNCHANGED <<dirs, runs, arquivos, output, idx, dados_empacotados, embedded>>
    /\ UNCHANGED unpackVars

\* Line 65 raises (the output cannot be opened for writing); lines 79-81.
PackWriteErro ==
    /\ pc = "pack"
    /\ idx > Len(arquivos)
    /\ ~OpenWriteOk(output, dirs)
    /\ packComprimidos' = ZlibCompress(dados_empacotados)
    /\ packStatus' = "erro"
    /\ pc' = "idle"
    /\ UNCHANGED <<files, dirs, runs, arquivos, output, idx, dados_empacotados, embedded>>
    /\ UNCHANGED unpackVars

----------------------------------------------------------------------------
(* Diamond.descomprimir_desempacotar(arquivo_dmd, pasta_destino)            *)

\* The state every unpack invocation starts from.
UnpackEnter(arq, dest) ==
    /\ pc = "idle"
    /\ runs < MaxRuns
    /\ runs' = runs + 1
    /\ arquivo_dmd' = arq
    /\ written' = <<>>
    /\ i' = 0
    /\ caminho_arquivo' = <<>>
    /\ UNCHANGED packVars

\* Lines 86-88: the archive does not exist.
UnpackMissing(arq, dest) ==
    /\ UnpackEnter(arq, dest)
    /\ ~Exists(arq)
    /\ unpackStatus' = "erro"
    /\ falha' = "missing"
    /\ pc' = "idle"
    /\ pasta_destino' = dest
    /\ dados_comprimidos' = <<>>
    /\ dados_descomprimidos' = <<>>
    /\ zlibCalled' = FALSE
    /\ pos' = 0
    /\ num_arquivos' = 0
    /\ UNCHANGED <<files, dirs>>

\* Lines 92-97: the first 4 bytes are not the magic number; sys.exit(1)
\* raises SystemExit, which "except Exception" does not catch.
UnpackBadMagic(arq, dest) ==
    /\ UnpackEnter(arq, dest)
    /\ Exists(arq)
    /\ OpenReadOk(arq)
    /\ ~MagicOk(Slice(ReadFile(arq), 0, 4))
    /\ unpackStatus' = "erro"
    /\ falha' = "magic"
    /\ pc' = "idle"
    /\ pasta_destino' = dest
    /\ dados_comprimidos' = <<>>
    /\ dados_descomprimidos' = <<>>
    /\ zlibCalled' = FALSE
    /\ pos' = 0
    /\ num_arquivos' = 0
    /\ UNCHANGED <<files, dirs>>

\* pasta_destino after line 105-106.
Destino(arq, dest) == IF dest = None THEN SplitextRoot(arq) \o Extraido ELSE dest

\* The statement of lines 92-113 that raises for this archive, "" when none:
\* open on a directory, zlib.decompress, os.makedirs, struct.unpack of the count.
HeaderFalha(arq, dest) ==
    IF ~OpenReadOk(arq) THEN "open"
    ELSE IF ~ZlibDecompressOk(Slice(ReadFile(arq), 4, Len(ReadFile(arq)))) THEN "zlib"
    ELSE IF ~Exists(Destino(arq, dest)) /\ ~MakeDirs(Destino(arq, dest)).ok THEN "mkdir"
    ELSE IF ~UnpackIOk(Slice(ZlibDecompress(Slice(ReadFile(arq), 4, Len(ReadFile(arq)))), 0, 4))
         THEN "count"
    ELSE ""

\* The directories after line 108-109.
DirsAfterMakedirs(arq, dest) ==
    IF Exists(Destino(arq, dest)) THEN dirs ELSE MakeDirs(Destino(arq, dest)).dirs

\* Lines 92-113 with an exception in them; lines 145-147 report it and exit
\* with status 1.  The destination directory is made before the count is
\* read.
UnpackHeaderErro(arq, dest) ==
    /\ UnpackEnter(arq, dest)
    /\ Exists(arq)
    /\ OpenReadOk(arq) => MagicOk(Slice(ReadFile(arq), 0, 4))
    /\ HeaderFalha(arq, dest) # ""
    /\ LET f == HeaderFalha(arq, dest)
           z == IF f = "open" THEN <<>> ELSE Slice(ReadFile(arq), 4, Len(ReadFile(arq)))
       IN  /\ falha' = f
           /\ dados_comprimidos' = z
           /\ zlibCalled' = (f # "open")
           /\ dados_descomprimidos' = IF f \in {"mkdir", "count"} THEN ZlibDecompress(z) ELSE <<>>
           /\ pasta_destino' = IF f \in {"mkdir", "count"} THEN Destino(arq, dest) ELSE dest
           /\ dirs' = IF f \in {"mkdir", "count"} THEN DirsAfterMakedirs(arq, dest) ELSE dirs
    /\ unpackStatus' = "erro"
    /\ pc' = "idle"
    /\ pos' = 0
    /\ num_arquivos' = 0
    /\ UNCHANGED files

\* Lines 92-116: the archive is read and decompressed, the destination
\* directory made, the count read.
UnpackBegin(arq, dest) ==
    /\ UnpackEnter(arq, dest)
    /\ Exists(arq)
    /\ OpenReadOk(arq)
    /\ MagicOk(Slice(ReadFile(arq), 0, 4))
    /\ HeaderFalha(arq, dest) = ""
    /\ LET z == Slice(ReadFile(arq), 4, Len(ReadFile(arq)))
       IN  /\ dados_comprimidos' = z
           /\ dados_descomprimidos' = ZlibDecompress(z)
           /\ num_arquivos' = UnpackI(Slice(ZlibDecompress(z), 0, 4))
    /\ zlibCalled' = TRUE
    /\ pasta_destino' = Destino(arq, dest)
    /\ dirs' = DirsAfterMakedirs(arq, dest)
    /\ pos' = 4
    /\ unpackStatus' = "running"
    /\ falha' = ""
    /\ pc' = "unpack"
    /\ UNCHANGED files

\* caminho_arquivo of line 136.
Caminho(e) == Join(pasta_destino, e.nome)

\* Lines 120-140: one entry is read and its file written.
UnpackEntry ==
    /\ pc = "unpack"
    /\ i < num_arquivos
    /\ LET e == ReadEntry(dados_descomprimidos, pos)
       IN  /\ e.falha = ""
           /\ OpenWriteOk(Caminho(e), dirs)
           /\ files' = WriteFile(files, Resolve(Caminho(e), dirs).path, e.conteudo)
           /\ written' = Append(written,
                  [path |-> Resolve(Caminho(e), dirs).path, nome |-> e.nome,
                   nome_bytes |-> e.nome_bytes, tamanho_conteudo |-> e.tamanho_conteudo,
                   conteudo |-> e.conteudo])
           /\ caminho_arquivo' = Caminho(e)
           /\ pos' = e.pos
    /\ i' = i + 1
    /\ UNCHANGED <<dirs, pc, runs, arquivo_dmd, pasta_destino, dados_comprimidos,
                   dados_descomprimidos, zlibCalled, num_arquivos, unpackStatus, falha>>
    /\ UNCHANGED packVars

\* A variant of UnpackEntryErro that removes the files already extracted.
UnpackEntryErroRollback ==
    /\ pc = "unpack"
    /\ i < num_arquivos
    /\ LET e == ReadEntry(dados_descomprimidos, pos)
       IN  /\ e.falha # "" \/ ~OpenWriteOk(Caminho(e), dirs)
           /\ falha' = IF e.falha # "" THEN e.falha ELSE "openw"
           /\ caminho_arquivo' = IF e.falha # "" THEN caminho_arquivo ELSE Caminho(e)
           /\ pos' = e.pos
    /\ files' = [q \in DOMAIN files \ { written[k].path : k \in 1..Len(written) } |-> files[q]]
    /\ unpackStatus' = "erro"
    /\ pc' = "idle"
    /\ UNCHANGED <<dirs, runs, arquivo_dmd, pasta_destino, dados_comprimidos,
                   dados_descomprimidos, zlibCalled, num_arquivos, i, written>>
    /\ UNCHANGED packVars

\* Lines 120-137 raise while the entry is read or its file opened; lines
\* 145-147.  Nothing is written for this entry.
UnpackEntryErro ==
    /\ pc = "unpack"
    /\ i < num_arquivos
    /\ LET e == ReadEntry(dados_descomprimidos, pos)
       IN  /\ e.falha # "" \/ ~OpenWriteOk(Caminho(e), dirs)
           /\ falha' = IF e.falha # "" THEN e.falha ELSE "openw"
           /\ caminho_arquivo' = IF e.falha # "" THEN caminho_arquivo ELSE Caminho(e)
           /\ pos' = e.pos
    /\ unpackStatus' = "erro"
    /\ pc' = "idle"
    /\ UNCHANGED <<files, dirs, runs, arquivo_dmd, pasta_destino, dados_comprimidos,
                   dados_descomprimidos, zlibCalled, num_arquivos, i, written>>
    /\ UNCHANGED packVars

\* Line 138 raises after line 137 opened the file (the device is full, the
\* quota is reached): the file is left with the n bytes that got through.
UnpackWriteErro ==
    /\ pc = "unpack"
    /\ i < num_arquivos
    /\ LET e == ReadEntry(dados_descomprimidos, pos)
       IN  /\ e.falha = ""
           /\ OpenWriteOk(Caminho(e), dirs)
           /\ \E n \in 0..(Len(e.conteudo) - 1) :
                 files' = WriteFile(files, Resolve(Caminho(e), dirs).path,
                                    SubSeq(e.conteudo, 1, n))
           /\ caminho_arquivo' = Caminho(e)
           /\ pos' = e.pos
    /\ falha' = "write"
    /\ unpackStatus' = "erro"
    /\ pc' = "idle"
    /\ UNCHANGED <<dirs, runs, arquivo_dmd, pasta_destino, dados_comprimidos,
                   dados_descomprimidos, zlibCalled, num_arquivos, i, written>>
    /\ UNCHANGED packVars

\* Lines 142-143: every entry was written.
UnpackDone ==
    /\ pc = "unpack"
    /\ i >= num_arquivos
    /\ unpackStatus' = "ok"
    /\ pc' = "idle"
    /\ UNCHANGED <<files, dirs, runs, arquivo_dmd, pasta_destino, dados_comprimidos,
                   dados_descomprimidos, zlibCalled, pos, num_arquivos, i, caminho_arquivo,
                   written, falha>>
    /\ UNCHANGED packVars

----------------------------------------------------------------------------

Next ==
    \/ \E a \in PackArgs : PackStart(a[1], a[2])
    \/ PackSkip
    \/ PackEntry
    \/ PackEntryErro
    \/ PackWrite
    \/ PackWriteErro
    \/ \E a \in UnpackArgs : UnpackMissing(a[1], a[2])
    \/ \E a \in UnpackArgs : UnpackBadMagic(a[1], a[2])
    \/ \E a \in UnpackArgs : UnpackHeaderErro(a[1], a[2])
    \/ \E a \in UnpackArgs : UnpackBegin(a[1], a[2])
    \/ UnpackEntry
    \/ UnpackEntryErro
    \/ UnpackWriteErro
    \/ UnpackDone

Spec == Init /\ [][Next]_vars

----------------------------------------------------------------------------
(* The properties.                                                          *)

\* The entries of payload d from cursor p on, read as the format lays them
\* out: 1 byte of name length, the name, 4 bytes of content length, the content.
RECURSIVE RawEntries(_, _)
RawEntries(d, p) ==
    IF p >= Len(d) THEN <<>>
    ELSE LET n  == d[p + 1]
             lb == Slice(d, p + 1 + n, p + 5 + n)
         IN  IF Len(lb) < 4 THEN <<>>
             ELSE << [nome_bytes |-> Slice(d, p + 1, p + 1 + n),
                      conteudo   |-> Slice(d, p + 5 + n, p + 5 + n + UnpackI(lb))] >>
                  \o RawEntries(d, p + 5 + n + UnpackI(lb))

FileHas(path, data) == path \in DOMAIN files /\ files[path] = data

\* The unpack invocation in progress or last finished read the archive that
\* the last pack invocation wrote with success.
PackedUnpacked ==
    /\ packStatus = "ok"
    /\ unpackStatus # "none"
    /\ zlibCalled
    /\ dados_comprimidos = packComprimidos

UnpackFinished == unpackStatus \in {"ok", "erro"}

\* The failures of the file system on a destination file: it cannot be
\* opened for writing, or the write fails.
IOFalhas == {"openw", "write"}

\* The base name of the k-th file read by the pack, in UTF-8.
PackedName(k) == EncodeUtf8(Basename(embedded[k][1]))

\* The file the destination directory holds under a name.
DestPath(nome) == Resolve(Join(pasta_destino, nome), dirs).path

\* The last completed write to the path of the k-th write.
LastWrite(k) ==
    CHOOSE j \in k..Len(written) :
        /\ written[j].path = written[k].path
        /\ \A m \in (j + 1)..Len(written) : written[m].path # written[k].path

\* C1 (as claimed): the FileCount in the first 4 bytes of the payload of a
\* written archive equals the number of entries serialized after it.
C1_CountConsistency ==
    packStatus = "ok" =>
        UnpackI(Slice(dados_empacotados, 0, 4)) = Len(RawEntries(dados_empacotados, 4))

\* The files packed: all the paths supplied exist, there is at least one, and
\* every base name fits in 255 UTF-8 bytes.
C2_Packed ==
    /\ Len(arquivos) > 0
    /\ Len(embedded) = Len(arquivos)
    /\ \A k \in 1..Len(embedded) : Len(PackedName(k)) <= 255

\* C2 (as claimed): unpacking the archive of such files succeeds (unless the
\* file system fails to open or write a destination file) and leaves every packed file under its base name
\* with its content.
C2_RoundTripEvery ==
    (PackedUnpacked /\ C2_Packed /\ UnpackFinished /\ falha \notin IOFalhas) =>
        /\ unpackStatus = "ok"
        /\ \A k \in 1..Len(embedded) :
              FileHas(DestPath(Basename(embedded[k][1])), embedded[k][2])

\* C2 (amended): ... leaves, under the base name of every packed file, the
\* content of the last packed file that has this base name.
C2_RoundTripLast ==
    (PackedUnpacked /\ C2_Packed /\ UnpackFinished /\ falha \notin IOFalhas) =>
        /\ unpackStatus = "ok"
        /\ \A k \in 1..Len(embedded) :
              (\A j \in (k + 1)..Len(embedded) :
                   Basename(embedded[j][1]) # Basename(embedded[k][1]))
              => FileHas(DestPath(Basename(embedded[k][1])), embedded[k][2])

\* C2 witness: an archive of two files of the same base name and different
\* content was packed and unpacked with success.
C2_Witness ==
    /\ PackedUnpacked /\ C2_Packed /\ unpackStatus = "ok"
    /\ Len(embedded) = 2
    /\ Basename(embedded[1][1]) = Basename(embedded[2][1])
    /\ embedded[1][2] # embedded[2][2]

\* C3 (as claimed): no extracted file is written with less content than its
\* declared ContentLength, and no unpack that read past the end of the
\* payload reports success.
C3_BoundsChecked ==
    /\ \A k \in 1..Len(written) : Len(written[k].conteudo) = written[k].tamanho_conteudo
    /\ unpackStatus = "ok" => pos <= Len(dados_descomprimidos)

\* C4: an unpack invocation on a file whose first 4 bytes are not the magic
\* number (a shorter file included) ends with status 1 in that step, without
\* calling zlib.decompress and with the file system as it was.
C4_MagicRejection ==
    [][ ( /\ pc = "idle" /\ runs' = runs + 1 /\ pc' # "pack"
          /\ OpenReadOk(arquivo_dmd')
          /\ Slice(ReadFile(arquivo_dmd'), 0, 4) # MAGIC_NUMBER )
        => ( /\ unpackStatus' = "erro" /\ pc' = "idle"
             /\ ~zlibCalled' /\ dados_descomprimidos' = <<>>
             /\ files' = files /\ dirs' = dirs ) ]_vars

\* C4 witness: an unpack was rejected for its magic number, the file having
\* at least 4 bytes.
C4_Witness ==
    /\ falha = "magic" /\ unpackStatus = "erro"
    /\ OpenReadOk(arquivo_dmd) /\ Len(ReadFile(arquivo_dmd)) >= 4

\* C5 (as claimed): a base name of more than 255 UTF-8 bytes is stored as its
\* first 255 bytes, and the unpack of the archive decodes it without raising.
C5_NameTruncation ==
    /\ packStatus = "ok" =>
          \A k \in 1..Len(embedded) :
              Len(PackedName(k)) > 255 =>
                  /\ k <= Len(RawEntries(dados_empacotados, 4))
                  /\ RawEntries(dados_empacotados, 4)[k].nome_bytes = SubSeq(PackedName(k), 1, 255)
    /\ PackedUnpacked => falha # "decode"

\* C6: from its start to a failure in its loop, a pack invocation changes no
\* file and no directory (the output is neither created nor touched), and a
\* path that exists and cannot be read ends it with status 1.
C6_NoOutputOnReadFailure ==
    [][ /\ (pc' = "pack" \/ (pc = "pack" /\ packStatus' = "erro" /\ idx <= Len(arquivos)))
           => (files' = files /\ dirs' = dirs)
        /\ (pc = "pack" /\ idx <= Len(arquivos) /\ Exists(arquivos[idx])
              /\ ~OpenReadOk(arquivos[idx]))
           => (packStatus' = "erro" /\ pc' = "idle") ]_vars

\* C6 witness: a pack failed on its second path after reading the first, its
\* output path being a file that was there before.
C6_Witness ==
    /\ packStatus = "erro" /\ pc = "idle"
    /\ idx = 2 /\ idx <= Len(arquivos) /\ Len(embedded) = 1
    /\ OpenReadOk(output) /\ ReadFile(output) = Archive(PayloadP)

\* C7: when the loop of the pack ends, the entries of the payload are those
\* of the supplied paths that exist, in their order; the unpack of the
\* archive writes them in that order; once it has written them all, every
\* path written holds the content of the last entry written to it.
C7_EntryOrder ==
    /\ (pc = "pack" /\ idx > Len(arquivos)) =>
          LET ex == SelectSeq(arquivos, Exists)
              re == RawEntries(dados_empacotados, 4)
          IN  /\ Len(re) = Len(ex)
              /\ \A k \in 1..Len(ex) :
                    /\ re[k].nome_bytes = Take(EncodeUtf8(Basename(ex[k])), 255)
                    /\ re[k].conteudo = ReadFile(ex[k])
    /\ PackedUnpacked =>
          /\ Len(written) <= Len(embedded)
          /\ \A k \in 1..Len(written) :
                /\ written[k].nome_bytes = Take(PackedName(k), 255)
                /\ written[k].conteudo = embedded[k][2]
    /\ (PackedUnpacked /\ Len(written) = Len(embedded)) =>
          \A k \in 1..Len(written) :
              FileHas(written[k].path, written[LastWrite(k)].conteudo)

\* C7 witness: an archive of two entries of the same name and different
\* content was unpacked with success.
C7_Witness ==
    /\ PackedUnpacked /\ unpackStatus = "ok"
    /\ Len(written) = 2
    /\ written[1].path = written[2].path
    /\ written[1].conteudo # written[2].conteudo
    /\ FileHas(written[1].path, embedded[2][2])

\* The failures of the loop of line 118.
EntryFalhas == {"namelen", "decode", "contentlen", "openw", "write"}

\* C8 (as claimed): after a failure at entry i+1 the unpack has ended with
\* status 1, nothing was written for a later entry, and the file of every
\* entry before it holds what was written to it.
C8_NoRollbackEvery ==
    falha \in EntryFalhas =>
        /\ unpackStatus = "erro" /\ pc # "unpack"
        /\ Len(written) = i
        /\ \A k \in 1..Len(written) :
              FileHas(written[k].path, written[LastWrite(k)].conteudo)

\* C8 (amended): ... the file of every entry before it holds what was written
\* to it, except the file that the failing write itself had opened.
C8_NoRollbackOthers ==
    falha \in EntryFalhas =>
        /\ unpackStatus = "erro" /\ pc # "unpack"
        /\ Len(written) = i
        /\ \A k \in 1..Len(written) :
              \/ falha = "write" /\ written[k].path = Resolve(caminho_arquivo, dirs).path
              \/ FileHas(written[k].path, written[LastWrite(k)].conteudo)

\* C8 witness: an unpack failed at its fourth entry after writing three, two
\* of them to the same path.
C8_Witness ==
    /\ falha \in {"namelen", "openw"} /\ unpackStatus = "erro"
    /\ Len(written) = 3
    /\ written[1].path = written[2].path
    /\ FileHas(written[1].path, written[2].conteudo)
    /\ FileHas(written[3].path, written[3].conteudo)

\* C9 (as claimed): the unpack of an archive that a pack wrote with success
\* ends with success (unless the file system fails to open or write a
\* destination file), having written the files that were embedded.
C9_PackedIsAccepted ==
    (PackedUnpacked /\ UnpackFinished /\ falha \notin IOFalhas) =>
        /\ unpackStatus = "ok"
        /\ Len(written) = Len(embedded)

\* C10 (as claimed): every file an unpack writes lies directly inside
\* pasta_destino.
C10_Confined ==
    unpackStatus \in {"running", "ok", "erro"} =>
        \A k \in 1..Len(written) :
            Parent(written[k].path) = Resolve(pasta_destino, dirs).path

====
